---- MODULE Spec2Model ----
(***************************************************************************)
(* Method 2 of agent_with_metadata_filtering.ipynb: the pydantic models    *)
(* Entity / ExtractedEntities, extract_entities, construct_metadata_filter *)
(* and process_query.                                                      *)
(*                                                                         *)
(* Python values are modelled as records:                                  *)
(*   None                      [kind |-> "None"]                           *)
(*   a JSON string  "s"        [type |-> "str", val |-> "s"]               *)
(*   a JSON number  7          [type |-> "int", val |-> "7"]               *)
(*   a JSON null               [type |-> "null", val |-> ""]               *)
(*   a dict (insertion order)  a sequence of items [k |-> key, v |-> val]  *)
(*   {"andAll": [...]}         [andAll |-> <<...>>]                        *)
(*   {"equals": {...}}         [equals |-> [key |-> k, value |-> v]]       *)
(***************************************************************************)
EXTENDS Integers, Sequences, FiniteSets, TLC

VARIABLES
    pydantic,            \* major version of the installed pydantic ("v1" or "v2")
    pc,                  \* position inside process_query
    content,             \* extract_entities: response["output"]["message"]["content"]
    json_entities,       \* extract_entities: the toolUse input found in the response
    extracted_entities,  \* process_query: result of extract_entities(text)
    metadata_filter,     \* process_query: result of construct_metadata_filter
    session_state,       \* the filter slot of the session_state given to agents.invoke
    text,                \* process_query: its argument
    calls,               \* the service calls the current process_query call has made
    response,            \* process_query: what agents.invoke returned
    returned,            \* what the last process_query call returned to its caller
    invocations          \* per concurrent caller: the locals of its parse_obj call

vars == <<pydantic, pc, content, json_entities, extracted_entities, metadata_filter, session_state,
          text, calls, response, returned, invocations>>

----------------------------------------------------------------------------
(* Bounds of the model *)

\* most records the extractor returns for one query
MaxEntities == 2

\* most content blocks in one converse response
MaxBlocks == 3

----------------------------------------------------------------------------
(* Python / JSON values *)

None == [kind |-> "None"]

JNull == [type |-> "null", val |-> ""]
JStr(s) == [type |-> "str", val |-> s]
JInt(s) == [type |-> "int", val |-> s]

\* the fields of class Entity, in declaration order
FieldNames == <<"employee_name", "document_type", "role">>

\* a key the Entity class does not declare
ExtraKey == "department"

\* Python's str ordering of the keys that occur ("de" < "do" < "e" < "r")
KeyRank(k) ==
    CASE k = "department" -> 1
      [] k = "document_type" -> 2
      [] k = "employee_name" -> 3
      [] k = "role" -> 4

----------------------------------------------------------------------------
(* pydantic: class Entity and class ExtractedEntities *)

HasKey(d, key) == \E i \in DOMAIN d : d[i].k = key
Lookup(d, key) == d[CHOOSE i \in DOMAIN d : d[i].k = key].v

\* sorted(entity.items()): the (key, value) pairs in ascending key order; the
\* keys of a dict are distinct, so no two pairs are ever compared by value
RECURSIVE sorted(_)
sorted(items) ==
    IF items = <<>> THEN <<>>
    ELSE LET i == CHOOSE i \in DOMAIN items :
                      \A j \in DOMAIN items : KeyRank(items[i].k) <= KeyRank(items[j].k)
             rest == [j \in 1..(Len(items) - 1) |-> IF j < i THEN items[j] ELSE items[j + 1]]
         IN  <<items[i]>> \o sorted(rest)

\* the for loop of remove_duplicates over the entities not yet visited
RECURSIVE remove_duplicates_loop(_, _, _)
remove_duplicates_loop(entities, seen, unique_entities) ==
    IF entities = <<>> THEN unique_entities
    ELSE LET entity_tuple == sorted(Head(entities))
         IN  IF entity_tuple \notin seen
             THEN remove_duplicates_loop(Tail(entities), seen \cup {entity_tuple},
                                         Append(unique_entities, entity_tuple))
             ELSE remove_duplicates_loop(Tail(entities), seen, unique_entities)

\* the loop with entity_tuple = tuple(entity.items()), the keys left unsorted
RECURSIVE remove_duplicates_loop_unsorted(_, _, _)
remove_duplicates_loop_unsorted(entities, seen, unique_entities) ==
    IF entities = <<>> THEN unique_entities
    ELSE LET entity_tuple == Head(entities)
         IN  IF entity_tuple \notin seen
             THEN remove_duplicates_loop_unsorted(Tail(entities), seen \cup {entity_tuple},
                                                  Append(unique_entities, entity_tuple))
             ELSE remove_duplicates_loop_unsorted(Tail(entities), seen, unique_entities)

remove_duplicates_unsorted(entities) == remove_duplicates_loop_unsorted(entities, {}, <<>>)

\* @validator("entities", pre=True): runs on the raw list, before Entity validation
remove_duplicates(entities) == remove_duplicates_loop(entities, {}, <<>>)

ValidationError(index, field) ==
    [kind |-> "raise", exc |-> "ValidationError", index |-> index, loc |-> field]

IsRaise(x) == "kind" \in DOMAIN x /\ x.kind = "raise"

\* validation of one Optional[str] field that has no default.
\*   pydantic 1.x: a missing key defaults to None, a number is coerced to str
\*   pydantic 2.x: a missing key is "Field required", a number is not a valid string
\* the result is None, a str, or the name of the error
Optional_str(version, d, field) ==
    IF ~HasKey(d, field)
    THEN IF version = "v1" THEN None ELSE [error |-> "missing"]
    ELSE LET v == Lookup(d, field)
         IN  CASE v.type = "null" -> None
               [] v.type = "str" -> v
               [] v.type = "int" -> IF version = "v1" THEN JStr(v.val)
                                    ELSE [error |-> "string_type"]

IsError(x) == "error" \in DOMAIN x

\* Entity.parse_obj(d) for the record at position index: keys that are not fields
\* of Entity are ignored (no Config, so extra = ignore)
Entity(version, d, index) ==
    LET employee_name == Optional_str(version, d, "employee_name")
        document_type == Optional_str(version, d, "document_type")
        role == Optional_str(version, d, "role")
    IN  IF IsError(employee_name) THEN ValidationError(index, "employee_name")
        ELSE IF IsError(document_type) THEN ValidationError(index, "document_type")
        ELSE IF IsError(role) THEN ValidationError(index, "role")
        ELSE [employee_name |-> employee_name,
              document_type |-> document_type,
              role |-> role]

\* ExtractedEntities.parse_obj(obj): the pre-validator, then List[Entity]
ExtractedEntities_parse_obj(version, obj) ==
    LET unique == remove_duplicates(obj.entities)
        parsed == [i \in DOMAIN unique |-> Entity(version, unique[i], i - 1)]
        failed == {i \in DOMAIN parsed : IsRaise(parsed[i])}
    IN  IF failed # {}
        THEN parsed[CHOOSE i \in failed : \A j \in failed : i <= j]
        ELSE [entities |-> parsed]

----------------------------------------------------------------------------
(* extract_entities, construct_metadata_filter *)

\* a toolUse input with no keys
EmptyInput == [kind |-> "dict"]

\* the content blocks of a converse response
TextBlock == [text |-> "Let me look that up."]
ToolUse(name, input) == [toolUse |-> [name |-> name, input |-> input]]

\* the scan takes the last extract_entities toolUse block (a loop without break)
RECURSIVE toolUse_input_of_last_block(_)
toolUse_input_of_last_block(blocks) ==
    IF blocks = <<>> THEN None
    ELSE LET last == blocks[Len(blocks)]
         IN  IF "toolUse" \in DOMAIN last /\ last.toolUse.name = "extract_entities"
             THEN last.toolUse.input
             ELSE toolUse_input_of_last_block(SubSeq(blocks, 1, Len(blocks) - 1))

\* lines 678-682 of extract_entities: json_entities after the scan of the content
\* blocks, which stops at the first toolUse block named extract_entities
RECURSIVE toolUse_input(_)
toolUse_input(blocks) ==
    IF blocks = <<>> THEN None
    ELSE IF "toolUse" \in DOMAIN Head(blocks) /\ Head(blocks).toolUse.name = "extract_entities"
         THEN Head(blocks).toolUse.input
         ELSE toolUse_input(Tail(blocks))

\* lines 684-688 of extract_entities, given the toolUse input found (or None)
extract_entities(version, found) ==
    IF found # None /\ found # EmptyInput
    THEN ExtractedEntities_parse_obj(version, found)
    ELSE None

\* Python truthiness of an Optional[str] attribute
Truthy(v) == v # None /\ v # JStr("")

IndexError == [kind |-> "raise", exc |-> "IndexError"]
AttributeError == [kind |-> "raise", exc |-> "AttributeError"]

\* obj.entities: None has no such attribute
attr_entities(obj) == IF obj = None THEN AttributeError ELSE [value |-> obj.entities]

\* list[i], 0-based
subscript(list, i) == IF i < Len(list) THEN list[i + 1] ELSE IndexError

\* a field that gets a leaf although its value is "unknown"
Leaf_keeps_unknown(entity, field) ==
    IF Truthy(entity[field])
    THEN <<[equals |-> [key |-> field, value |-> entity[field].val]]>>
    ELSE <<>>

\* a field tested with "is not None" instead of by truthiness
Leaf_is_not_None(entity, field) ==
    IF entity[field] # None /\ entity[field] # JStr("unknown")
    THEN <<[equals |-> [key |-> field, value |-> entity[field].val]]>>
    ELSE <<>>

\* an if-block pasted from the first one with its key left as "employee_name"
Leaf_with_pasted_key(entity, field) ==
    IF Truthy(entity[field]) /\ entity[field] # JStr("unknown")
    THEN <<[equals |-> [key |-> "employee_name", value |-> entity[field].val]]>>
    ELSE <<>>

\* an if-block that writes the name of the field where its value belongs
Leaf_with_key_as_value(entity, field) ==
    IF Truthy(entity[field]) /\ entity[field] # JStr("unknown")
    THEN <<[equals |-> [key |-> field, value |-> field]]>>
    ELSE <<>>

\* one of the three if-blocks: appends a leaf for the field, or nothing
Leaf(entity, field) ==
    IF Truthy(entity[field]) /\ entity[field] # JStr("unknown")
    THEN <<[equals |-> [key |-> field, value |-> entity[field].val]]>>
    ELSE <<>>

\* the three if-blocks in the order of the code
Leaves(entity) ==
    Leaf(entity, "employee_name") \o Leaf(entity, "document_type") \o Leaf(entity, "role")

\* the last line: metadata_filter if its andAll is not empty, else None
Result(andAll) == IF andAll # <<>> THEN [andAll |-> andAll] ELSE None

\* the guard tests extracted_entities only, not its entities list
construct_without_entities_guard(ee) ==
    IF ee = None THEN None
    ELSE LET entity == subscript(ee.entities, 0)
         IN  IF IsRaise(entity) THEN entity ELSE Result(Leaves(entity))

\* the guard tests extracted_entities.entities without testing extracted_entities
construct_without_None_guard(ee) ==
    LET entities == attr_entities(ee)
    IN  IF IsRaise(entities) THEN entities
        ELSE IF entities.value = <<>> THEN None
        ELSE Result(Leaves(subscript(entities.value, 0)))

\* the last line returns metadata_filter whether or not andAll is empty
construct_returns_empty_andAll(ee) ==
    IF ee = None THEN None
    ELSE IF ee.entities = <<>> THEN None
    ELSE [andAll |-> Leaves(subscript(ee.entities, 0))]

\* the record taken is entities[-1]
construct_from_last_entity(ee) ==
    IF ee = None THEN None
    ELSE IF ee.entities = <<>> THEN None
    ELSE Result(Leaves(subscript(ee.entities, Len(ee.entities) - 1)))

\* the leaves follow the keys of the record as remove_duplicates left them
construct_in_key_order(ee) ==
    IF ee = None THEN None
    ELSE IF ee.entities = <<>> THEN None
    ELSE LET entity == subscript(ee.entities, 0)
         IN  Result(Leaf(entity, "document_type") \o Leaf(entity, "employee_name")
                    \o Leaf(entity, "role"))

\* construct_metadata_filter(extracted_entities). The guard
\* `not extracted_entities or not extracted_entities.entities` short-circuits: the
\* attribute is read only of an object, and entities[0] only of a non-empty list
construct_metadata_filter(ee) ==
    IF ee = None THEN None
    ELSE LET entities == attr_entities(ee)
         IN  IF IsRaise(entities) THEN entities
             ELSE IF entities.value = <<>> THEN None
             ELSE LET entity == subscript(entities.value, 0)
                  IN  IF IsRaise(entity) THEN entity ELSE Result(Leaves(entity))

----------------------------------------------------------------------------
(* What the extractor (the model behind converse) may answer *)

\* the value the extractor gives a field when it does determine it
Sample(f) ==
    CASE f = "employee_name" -> "Alex Anderson"
      [] f = "document_type" -> "finance"
      [] f = "role" -> "manager"

ChoiceValue(f, c) ==
    CASE c = "null" -> JNull
      [] c = "unknown" -> JStr("unknown")
      [] c = "empty" -> JStr("")
      [] c = "sample" -> JStr(Sample(f))
      [] c = "number" -> JInt("7")

\* the dict with the keys of ks, in that order, that ch does not omit
RECURSIVE Dict(_, _)
Dict(ks, ch) ==
    IF ks = <<>> THEN <<>>
    ELSE LET k == Head(ks)
             rest == Dict(Tail(ks), ch)
         IN  IF k = ExtraKey THEN <<[k |-> k, v |-> JStr("hr")]>> \o rest
             ELSE IF ch[k] = "omitted" THEN rest
             ELSE <<[k |-> k, v |-> ChoiceValue(k, ch[k])]>> \o rest

Fields == {FieldNames[i] : i \in DOMAIN FieldNames}

SchemaOrder == FieldNames
OtherOrder == <<"role", "employee_name", "document_type">>
WithExtra == <<"employee_name", "department", "document_type", "role">>

\* the records with keys in the given order in which n fields, for some n of
\* counts, carry the choice c and the other fields their sample value
Answers(order, c, counts) ==
    {Dict(order, ch) : ch \in {x \in [Fields -> {c, "sample"}] :
                                  Cardinality({f \in Fields : x[f] = c}) \in counts}}

\* the records the extractor may return: every mix of omitted, "unknown" and
\* determined fields, and records with null, empty or numeric values, with
\* another key order, or with a key Entity does not declare
Records ==
    {Dict(SchemaOrder, ch) : ch \in [Fields -> {"omitted", "unknown", "sample"}]}
    \cup Answers(SchemaOrder, "null", {1, 3})
    \cup Answers(SchemaOrder, "empty", {1, 3})
    \cup Answers(SchemaOrder, "number", {1, 3})
    \cup Answers(OtherOrder, "unknown", {0, 1})
    \cup Answers(WithExtra, "unknown", {0, 3})

RECURSIVE ListsUpTo(_)
ListsUpTo(n) ==
    IF n = 0 THEN {<<>>}
    ELSE LET shorter == ListsUpTo(n - 1)
         IN  shorter \cup {Append(l, r) : l \in {s \in shorter : Len(s) = n - 1}, r \in Records}

\* the toolUse input extract_entities finds in the response, or None
Responses ==
    {None, EmptyInput} \cup {[entities |-> l] : l \in ListsUpTo(MaxEntities)}

----------------------------------------------------------------------------
(* The documents of the knowledge base and the filters of Method 1 *)

employee_list ==
    { [name |-> "Alex Anderson", role |-> "independent_worker"],
      [name |-> "Beth Baker", role |-> "manager"],
      [name |-> "Charlie Cook", role |-> "independent_worker"],
      [name |-> "Dave Duncan", role |-> "manager"],
      [name |-> "Emily Eaton", role |-> "independent_worker"] }

\* generate_metadata: the metadataAttributes of the healthcare and the finance
\* document of every employee
Documents ==
    { [employee_name |-> e.name, role |-> e.role, document_type |-> t] :
          e \in employee_list, t \in {"healthcare", "finance"} }

single_filter == [equals |-> [key |-> "employee_name", value |-> "Alex Anderson"]]

one_group_filter ==
    [andAll |-> << [equals |-> [key |-> "employee_name", value |-> "Alex Anderson"]],
                   [equals |-> [key |-> "document_type", value |-> "finance"]] >>]

\* whether a document's metadata satisfies a FilterExpression: an equals leaf
\* compares one attribute, an andAll holds when every child holds
RECURSIVE Matches(_, _)
Matches(f, doc) ==
    IF "equals" \in DOMAIN f
    THEN doc[f.equals.key] = f.equals.value
    ELSE \A i \in DOMAIN f.andAll : Matches(f.andAll[i], doc)

\* the documents the retrieval agent searches under a filter
Select(f) == {doc \in Documents : Matches(f, doc)}

----------------------------------------------------------------------------
(* process_query *)

\* the query of Method 2 and the query of Method 1
Query == "I am Alex Anderson. How much will my employer match my 401k contribution?"

Texts == {Query, "How much will my employer match my 401k contribution?"}

\* the toolUse inputs with at most one record
OneRecordResponses ==
    {None, EmptyInput} \cup {[entities |-> l] : l \in ListsUpTo(1)}

\* the response whose scan finds the given toolUse input: the one toolUse block
\* with that input, or (for None) a text block only
OneBlock(found) ==
    IF found = None THEN <<TextBlock>> ELSE <<ToolUse("extract_entities", found)>>

\* the toolUse inputs of the responses with several blocks: no key, no record, a
\* record pydantic accepts and a record pydantic v2 rejects
BlockInputs ==
    {EmptyInput, [entities |-> <<>>]}
    \cup {[entities |-> <<r>>] : r \in Answers(SchemaOrder, "unknown", {0})}
    \cup {[entities |-> <<r>>] : r \in Answers(OtherOrder, "number", {3})}

\* a text block, a toolUse block of another tool, and extract_entities toolUse blocks
Blocks ==
    {TextBlock, ToolUse("search", [entities |-> <<>>])}
    \cup {ToolUse("extract_entities", input) : input \in BlockInputs}

RECURSIVE BlockLists(_)
BlockLists(n) ==
    IF n = 0 THEN {<<>>}
    ELSE LET shorter == BlockLists(n - 1)
         IN  shorter \cup {Append(l, b) : l \in {s \in shorter : Len(s) = n - 1}, b \in Blocks}

\* what the agent may answer
AgentResponses == {"answer A", "answer B"}

\* a failure of the converse call itself, raised by the service client
ClientError == [kind |-> "raise", exc |-> "ClientError"]

ConverseCall(t) == [service |-> "converse", text |-> t]
AgentCall(t, f) == [service |-> "agents.invoke", input_text |-> t, filter |-> f]

\* the callers that validate an extractor answer and build a filter concurrently
Callers == {"caller 1", "caller 2"}

\* a caller that is in no call
Idle == [pc |-> "idle", entities |-> <<>>, rest |-> <<>>, seen |-> {},
         unique_entities |-> <<>>, result |-> None]

Init ==
    /\ pydantic \in {"v1", "v2"}
    /\ pc = "idle"
    /\ content = None
    /\ json_entities = None
    /\ extracted_entities = None
    /\ metadata_filter = None
    /\ session_state = None
    /\ text = None
    /\ calls = <<>>
    /\ response = None
    /\ returned = None
    /\ invocations = [c \in Callers |-> Idle]

\* process_query is called with one of texts; extract_entities sends the text to
\* converse, which answers with one of contents, and scans the content for the
\* extract_entities toolUse block (None: no such block)
Call(texts, contents) ==
    /\ pc = "idle"
    /\ \E t \in texts :
           /\ text' = [value |-> t]
           /\ calls' = <<ConverseCall(t)>>
    /\ \E blocks \in contents :
           /\ content' = [value |-> blocks]
           /\ json_entities' = toolUse_input(blocks)
    /\ pc' = "found"
    /\ returned' = None
    /\ UNCHANGED <<pydantic, invocations, extracted_entities, metadata_filter, session_state, response>>

\* process_query is called with one of texts and the converse call raises
CallFails(texts) ==
    /\ pc = "idle"
    /\ \E t \in texts :
           /\ text' = [value |-> t]
           /\ calls' = <<ConverseCall(t)>>
    /\ extracted_entities' = ClientError
    /\ pc' = "raised"
    /\ returned' = None
    /\ UNCHANGED <<pydantic, invocations, content, json_entities, metadata_filter, session_state, response>>

Converse == Call({Query}, {OneBlock(found) : found \in Responses})

ConverseFails == CallFails({Query})

\* extract_entities wrapped in try/except: a failed validation counts as no entities
ExtractEntities_swallows_error ==
    /\ pc = "found"
    /\ extracted_entities' =
           IF IsRaise(extract_entities(pydantic, json_entities)) THEN None
           ELSE extract_entities(pydantic, json_entities)
    /\ pc' = "extracted"
    /\ UNCHANGED <<pydantic, invocations, content, json_entities, metadata_filter, session_state,
                   text, calls, response, returned>>

\* extract_entities returns (or ExtractedEntities.parse_obj raises)
ExtractEntities ==
    /\ pc = "found"
    /\ extracted_entities' = extract_entities(pydantic, json_entities)
    /\ pc' = IF IsRaise(extracted_entities') THEN "raised" ELSE "extracted"
    /\ UNCHANGED <<pydantic, invocations, content, json_entities, metadata_filter, session_state,
                   text, calls, response, returned>>

\* construct_metadata_filter takes its record with entities.pop(0)
ConstructMetadataFilter_pops_entity ==
    /\ pc = "extracted"
    /\ metadata_filter' = construct_metadata_filter(extracted_entities)
    /\ extracted_entities' =
           IF extracted_entities = None \/ extracted_entities.entities = <<>>
           THEN extracted_entities
           ELSE [entities |-> Tail(extracted_entities.entities)]
    /\ pc' = "built"
    /\ UNCHANGED <<pydantic, invocations, content, json_entities, session_state, text, calls, response, returned>>

ConstructMetadataFilter ==
    /\ pc = "extracted"
    /\ metadata_filter' = construct_metadata_filter(extracted_entities)
    /\ pc' = "built"
    /\ UNCHANGED <<pydantic, invocations, content, json_entities, extracted_entities, session_state,
                   text, calls, response, returned>>

\* process_query asks the agent only when there is a filter
Invoke_only_with_filter ==
    /\ pc = "built"
    /\ session_state' = [filter |-> metadata_filter]
    /\ calls' = IF metadata_filter = None THEN calls
                ELSE Append(calls, AgentCall(text.value, session_state'.filter))
    /\ \E answer \in AgentResponses :
           response' = IF metadata_filter = None THEN None ELSE [value |-> answer]
    /\ pc' = "invoked"
    /\ UNCHANGED <<pydantic, invocations, content, json_entities, extracted_entities, metadata_filter,
                   text, returned>>

\* session_state is assembled around metadata_filter and agents.invoke is called
Invoke ==
    /\ pc = "built"
    /\ session_state' = [filter |-> metadata_filter]
    /\ calls' = Append(calls, AgentCall(text.value, session_state'.filter))
    /\ \E answer \in AgentResponses : response' = [value |-> answer]
    /\ pc' = "invoked"
    /\ UNCHANGED <<pydantic, invocations, content, json_entities, extracted_entities, metadata_filter,
                   text, returned>>

\* process_query returns the response, or the exception leaves it and nothing is
\* returned; its locals are gone
Return ==
    /\ pc \in {"invoked", "raised"}
    /\ returned' = IF pc = "invoked" THEN response ELSE None
    /\ pc' = "idle"
    /\ content' = None
    /\ json_entities' = None
    /\ extracted_entities' = None
    /\ metadata_filter' = None
    /\ session_state' = None
    /\ text' = None
    /\ calls' = <<>>
    /\ response' = None
    /\ UNCHANGED <<pydantic, invocations>>

Next ==
    \/ Converse
    \/ ConverseFails
    \/ ExtractEntities
    \/ ConstructMetadataFilter
    \/ Invoke
    \/ Return

Spec == Init /\ [][Next]_vars

\* process_query over both queries and every extractor answer of at most one record
ConverseAny == Call(Texts, {OneBlock(found) : found \in OneRecordResponses})

ConverseAnyFails == CallFails(Texts)

NextQueries ==
    \/ ConverseAny
    \/ ConverseAnyFails
    \/ ExtractEntities
    \/ ConstructMetadataFilter
    \/ Invoke
    \/ Return

SpecQueries == Init /\ [][NextQueries]_vars

\* process_query over every converse response of at most MaxBlocks content blocks
ConverseBlocks == Call({Query}, BlockLists(MaxBlocks))

NextContent ==
    \/ ConverseBlocks
    \/ ConverseFails
    \/ ExtractEntities
    \/ ConstructMetadataFilter
    \/ Invoke
    \/ Return

SpecContent == Init /\ [][NextContent]_vars

----------------------------------------------------------------------------
(* Concurrent callers of ExtractedEntities.parse_obj and construct_metadata_filter *)

\* the records the concurrent callers pass: one record in two key orders, and
\* the record with every field "unknown"
CallerRecords ==
    Answers(SchemaOrder, "unknown", {0, 3}) \cup Answers(OtherOrder, "unknown", {0})

RECURSIVE CallerLists(_)
CallerLists(n) ==
    IF n = 0 THEN {<<>>}
    ELSE LET shorter == CallerLists(n - 1)
         IN  shorter \cup {Append(l, r) : l \in {x \in shorter : Len(x) = n - 1},
                                          r \in CallerRecords}

process_query_vars ==
    <<pydantic, pc, content, json_entities, extracted_entities, metadata_filter,
      session_state, text, calls, response, returned>>

\* `entity_tuple not in seen` tested against one set shared by all the calls
seen_by_any_call(inv, c, entity_tuple) ==
    \E d \in Callers : entity_tuple \in inv[d].seen

\* `entity_tuple in seen`: seen is a local of the call
already_seen(inv, c, entity_tuple) == entity_tuple \in inv[c].seen

\* parse_obj is called; remove_duplicates starts with empty unique_entities and seen
Begin(c) ==
    /\ invocations[c].pc = "idle"
    /\ \E l \in CallerLists(MaxEntities) :
           invocations' = [invocations EXCEPT ![c] =
               [pc |-> "loop", entities |-> l, rest |-> l, seen |-> {},
                unique_entities |-> <<>>, result |-> None]]
    /\ UNCHANGED process_query_vars

\* one iteration of the for loop of remove_duplicates
Visit(c) ==
    /\ invocations[c].pc = "loop"
    /\ invocations[c].rest # <<>>
    /\ LET entity_tuple == sorted(Head(invocations[c].rest))
       IN  invocations' = [invocations EXCEPT ![c] =
               IF ~already_seen(invocations, c, entity_tuple)
               THEN [@ EXCEPT !.rest = Tail(@),
                              !.seen = @ \cup {entity_tuple},
                              !.unique_entities = Append(@, entity_tuple)]
               ELSE [@ EXCEPT !.rest = Tail(@)]]
    /\ UNCHANGED process_query_vars

\* remove_duplicates returns unique_entities, which is validated as List[Entity]
Validate(c) ==
    /\ invocations[c].pc = "loop"
    /\ invocations[c].rest = <<>>
    /\ LET unique == invocations[c].unique_entities
           parsed == [i \in DOMAIN unique |-> Entity(pydantic, unique[i], i - 1)]
           failed == {i \in DOMAIN parsed : IsRaise(parsed[i])}
       IN  invocations' = [invocations EXCEPT ![c] =
               [@ EXCEPT !.pc = "validated",
                         !.seen = {},
                         !.result = IF failed # {}
                                    THEN parsed[CHOOSE i \in failed : \A j \in failed : i <= j]
                                    ELSE [entities |-> parsed]]]
    /\ UNCHANGED process_query_vars

\* construct_metadata_filter is called with the validated object
Build(c) ==
    /\ invocations[c].pc = "validated"
    /\ invocations' = [invocations EXCEPT ![c] =
           [@ EXCEPT !.pc = "done",
                     !.result = IF IsRaise(@) THEN @ ELSE construct_metadata_filter(@)]]
    /\ UNCHANGED process_query_vars

\* the caller drops the filter; it may call again
Discard(c) ==
    /\ invocations[c].pc = "done"
    /\ invocations' = [invocations EXCEPT ![c] = Idle]
    /\ UNCHANGED process_query_vars

NextConcurrent ==
    \E c \in Callers :
        \/ Begin(c)
        \/ Visit(c)
        \/ Validate(c)
        \/ Build(c)
        \/ Discard(c)

SpecConcurrent == Init /\ [][NextConcurrent]_vars

TypeOK == pc \in {"idle", "found", "extracted", "built", "invoked", "raised"}

----------------------------------------------------------------------------
(* Properties *)

\* construct_metadata_filter has returned in the current process_query call
Built == pc \in {"built", "invoked"}

\* extracted_entities is an ExtractedEntities object with at least one record
HasRecords ==
    /\ extracted_entities # None
    /\ ~IsRaise(extracted_entities)
    /\ extracted_entities.entities # <<>>

FirstEntity == extracted_entities.entities[1]

\* the children of a filter; none for None (or for anything that is no filter)
LeavesOf(f) == IF "andAll" \in DOMAIN f THEN f.andAll ELSE <<>>

HasLeaf(f, field) ==
    \E i \in DOMAIN LeavesOf(f) :
        "equals" \in DOMAIN LeavesOf(f)[i] /\ LeavesOf(f)[i].equals.key = field

\* C1: construct_metadata_filter returns None for every input that is None or
\* whose entities list is empty.
C1_NoFilterForNullOrEmpty ==
    (Built /\ ~HasRecords) => metadata_filter = None

C1_Witness ==
    /\ Built
    /\ extracted_entities # None
    /\ extracted_entities.entities = <<>>
    /\ metadata_filter = None

\* C2 as stated: the output holds a leaf for a field of the first record iff the
\* field is present and its value is not "unknown".
C2_LeafIffPresentAndNotUnknown ==
    (Built /\ HasRecords) =>
        \A f \in Fields :
            HasLeaf(metadata_filter, f)
                <=> (FirstEntity[f] # None /\ FirstEntity[f] # JStr("unknown"))

\* a value that qualifies for a leaf: a non-empty string other than "unknown"
Qualifies(v) == v # None /\ v # JStr("") /\ v # JStr("unknown")

\* C2 (amended): the output holds a leaf for a field of the first record iff the
\* field is present, not the empty string and not "unknown"; the number of
\* leaves is the number of such fields.
C2_LeafIffQualifies ==
    (Built /\ HasRecords) =>
        /\ \A f \in Fields : HasLeaf(metadata_filter, f) <=> Qualifies(FirstEntity[f])
        /\ Len(LeavesOf(metadata_filter))
               = Cardinality({f \in Fields : Qualifies(FirstEntity[f])})

C2_Witness ==
    /\ Built
    /\ HasRecords
    /\ FirstEntity.employee_name = JStr("unknown")
    /\ FirstEntity.document_type = JStr("finance")
    /\ FirstEntity.role = JStr("manager")
    /\ Len(LeavesOf(metadata_filter)) = 2
    /\ ~HasLeaf(metadata_filter, "employee_name")

\* C3: a first record whose three fields are each absent or "unknown" gives None.
C3_NoFilterWhenNothingKnown ==
    (Built /\ HasRecords
        /\ \A f \in Fields : FirstEntity[f] \in {None, JStr("unknown")})
    => metadata_filter = None

C3_Witness ==
    /\ Built
    /\ HasRecords
    /\ FirstEntity.employee_name = JStr("unknown")
    /\ FirstEntity.document_type = None
    /\ FirstEntity.role = JStr("unknown")
    /\ metadata_filter = None

\* C4: no andAll node with an empty child list is ever returned by
\* construct_metadata_filter or placed in the filter slot given to the agent.
C4_AndAllNeverEmpty ==
    /\ "andAll" \in DOMAIN metadata_filter => metadata_filter.andAll # <<>>
    /\ session_state # None =>
           ("andAll" \in DOMAIN session_state.filter
                => session_state.filter.andAll # <<>>)

C4_Witness ==
    /\ pc = "invoked"
    /\ HasRecords
    /\ \A f \in Fields : ~Qualifies(FirstEntity[f])
    /\ session_state.filter = None

\* C5: only the first record influences the result: the filter built from a set
\* is the filter built from its first record alone, whatever records follow.
C5_OnlyFirstRecordCounts ==
    (Built /\ HasRecords) =>
        metadata_filter = construct_metadata_filter([entities |-> <<FirstEntity>>])

C5_Witness ==
    /\ Built
    /\ HasRecords
    /\ Len(extracted_entities.entities) >= 2
    /\ metadata_filter # None
    /\ \E i \in 2..Len(extracted_entities.entities) :
           Leaves(extracted_entities.entities[i]) # LeavesOf(metadata_filter)

\* position of a field in the fixed order employee_name, document_type, role
FieldRank(f) == CHOOSE i \in DOMAIN FieldNames : FieldNames[i] = f

\* C6: the leaves appear in the order employee_name, document_type, role,
\* whichever fields qualify and whatever the key order of the extractor's record.
C6_FixedLeafOrder ==
    Built =>
        \A i, j \in DOMAIN LeavesOf(metadata_filter) :
            i < j => FieldRank(LeavesOf(metadata_filter)[i].equals.key)
                        < FieldRank(LeavesOf(metadata_filter)[j].equals.key)

C6_Witness ==
    /\ Built
    /\ "entities" \in DOMAIN json_entities
    /\ json_entities.entities # <<>>
    /\ json_entities.entities[1] # <<>>
    /\ json_entities.entities[1][1].k = "role"
    /\ Len(LeavesOf(metadata_filter)) = 3
    /\ LeavesOf(metadata_filter)[1].equals.key = "employee_name"
    /\ LeavesOf(metadata_filter)[3].equals.key = "role"

\* the fields of a raw record that are malformed: a key Entity does not declare,
\* or a declared field whose value is a number
Offending(d) ==
    {d[i].k : i \in {j \in DOMAIN d : d[j].k \notin Fields \/ d[j].v.type = "int"}}

Malformed(found) ==
    /\ "entities" \in DOMAIN found
    /\ \E i \in DOMAIN found.entities : Offending(found.entities[i]) # {}

\* C7: malformed extractor output fails with a validation error that names the
\* offending field; it is never dropped or coerced and no filter is built from it.
C7_MalformedFailsFast ==
    (pc \notin {"idle", "found"} /\ Malformed(json_entities)) =>
        /\ pc = "raised"
        /\ extracted_entities.exc = "ValidationError"
        /\ \E i \in DOMAIN json_entities.entities :
               extracted_entities.loc \in Offending(json_entities.entities[i])

\* a FilterExpression: andAll over equals leaves with string key and value
IsFilterExpression(f) ==
    /\ DOMAIN f = {"andAll"}
    /\ \A i \in DOMAIN f.andAll :
           /\ DOMAIN f.andAll[i] = {"equals"}
           /\ DOMAIN f.andAll[i].equals = {"key", "value"}
           /\ f.andAll[i].equals.key \in Fields

\* C8: for None, an empty set and every set of records, construct_metadata_filter
\* returns None or a FilterExpression and raises nothing.
C8_Total ==
    /\ pc = "extracted" => ENABLED ConstructMetadataFilter
    /\ Built => /\ ~IsRaise(metadata_filter)
                /\ metadata_filter = None \/ IsFilterExpression(metadata_filter)

C8_Witness ==
    /\ Built
    /\ HasRecords
    /\ FirstEntity.employee_name = JStr("")
    /\ FirstEntity.document_type = JStr("finance")
    /\ FirstEntity.role = JStr("manager")
    /\ IsFilterExpression(metadata_filter)

\* the dict d without its i-th item
WithoutItem(d, i) ==
    [j \in 1..(Len(d) - 1) |-> IF j < i THEN d[j] ELSE d[j + 1]]

\* the lists that differ from l in one field of one record, which is "unknown" in
\* the one and absent (null, or no such key) in the other
UnknownAbsentVariants(l) ==
    UNION {
        {[l EXCEPT ![r] = [l[r] EXCEPT ![i].v = JNull]] :
            i \in {j \in DOMAIN l[r] : l[r][j].k \in Fields /\ l[r][j].v = JStr("unknown")}}
        \cup
        {[l EXCEPT ![r] = WithoutItem(l[r], i)] :
            i \in {j \in DOMAIN l[r] : l[r][j].k \in Fields /\ l[r][j].v = JStr("unknown")}}
        \cup
        {[l EXCEPT ![r] = [l[r] EXCEPT ![i].v = JStr("unknown")]] :
            i \in {j \in DOMAIN l[r] : l[r][j].k \in Fields /\ l[r][j].v = JNull}}
        \cup
        {[l EXCEPT ![r] = Append(l[r], [k |-> f, v |-> JStr("unknown")])] :
            f \in {g \in Fields : ~HasKey(l[r], g)}}
        : r \in DOMAIN l}

C10_NoTwoRecordsEqual ==
    (pc \in {"extracted", "built", "invoked"} /\ HasRecords) =>
        \A i, j \in DOMAIN extracted_entities.entities :
            i < j => extracted_entities.entities[i] # extracted_entities.entities[j]


\* two dicts are equal in Python when they hold the same items, in any key order
SameDict(a, b) == {a[i] : i \in DOMAIN a} = {b[i] : i \in DOMAIN b}

\* the records of l from position i on that equal no earlier record of l
RECURSIVE FirstOccurrences(_, _)
FirstOccurrences(l, i) ==
    IF i > Len(l) THEN <<>>
    ELSE (IF \A j \in 1..(i - 1) : ~SameDict(l[j], l[i]) THEN <<l[i]>> ELSE <<>>)
         \o FirstOccurrences(l, i + 1)

\* the pre-validator has run on the entities of the toolUse input
Deduplicated ==
    /\ pc \in {"extracted", "raised"}
    /\ "entities" \in DOMAIN json_entities

\* C11: remove_duplicates returns the first occurrence of each distinct record,
\* in input order: every input record equals some output record, and the first
\* output record is the first input record.
C11_FirstOccurrencesInOrder ==
    Deduplicated =>
        LET l == json_entities.entities
            out == remove_duplicates(l)
            first == FirstOccurrences(l, 1)
        IN  /\ Len(out) = Len(first)
            /\ \A k \in DOMAIN out : SameDict(out[k], first[k])
            /\ \A i \in DOMAIN l : \E k \in DOMAIN out : SameDict(l[i], out[k])
            /\ l # <<>> => SameDict(out[1], l[1])
            /\ ~IsRaise(extracted_entities)
                   => Len(extracted_entities.entities) = Len(first)

C11_Witness ==
    /\ pc = "extracted"
    /\ "entities" \in DOMAIN json_entities
    /\ Len(json_entities.entities) = 2
    /\ json_entities.entities[1] # json_entities.entities[2]
    /\ SameDict(json_entities.entities[1], json_entities.entities[2])
    /\ Len(extracted_entities.entities) = 1


QualifyingFields == {f \in Fields : Qualifies(FirstEntity[f])}

\* C13: when exactly one field of the first record qualifies, the filter is a
\* one-element conjunction of the equals leaf for that field, and it selects
\* exactly the documents whose metadata has that value in that field, the same
\* documents as the bare equals leaf.
C13_OneFieldSelectsLikeBareLeaf ==
    (Built /\ HasRecords /\ Cardinality(QualifyingFields) = 1) =>
        LET f == CHOOSE g \in QualifyingFields : TRUE
            bare == [equals |-> [key |-> f, value |-> FirstEntity[f].val]]
        IN  /\ metadata_filter = [andAll |-> <<bare>>]
            /\ Select(metadata_filter) = {doc \in Documents : doc[f] = FirstEntity[f].val}
            /\ Select(metadata_filter) = Select(bare)

C13_Witness ==
    /\ Built
    /\ HasRecords
    /\ QualifyingFields = {"employee_name"}
    /\ Len(LeavesOf(metadata_filter)) = 1
    /\ Select(metadata_filter) = Select(single_filter)
    /\ Cardinality(Select(metadata_filter)) = 2


\* C14: every result other than None is one andAll node over one to three
\* children; each child is an equals leaf (never an andAll) whose key is one of
\* employee_name, document_type, role and whose value is that field of the first
\* record, verbatim; no key occurs twice.
C14_FilterShape ==
    (Built /\ metadata_filter # None) =>
        /\ DOMAIN metadata_filter = {"andAll"}
        /\ Len(metadata_filter.andAll) \in 1..3
        /\ \A i \in DOMAIN metadata_filter.andAll :
               LET child == metadata_filter.andAll[i]
               IN  /\ DOMAIN child = {"equals"}
                   /\ DOMAIN child.equals = {"key", "value"}
                   /\ child.equals.key \in Fields
                   /\ FirstEntity[child.equals.key] = JStr(child.equals.value)
        /\ \A i, j \in DOMAIN metadata_filter.andAll :
               i # j => metadata_filter.andAll[i].equals.key
                            # metadata_filter.andAll[j].equals.key

C14_Witness ==
    /\ Built
    /\ Len(LeavesOf(metadata_filter)) = 3
    /\ metadata_filter.andAll[2].equals = [key |-> "document_type", value |-> "finance"]
    /\ FirstEntity.document_type = JStr("finance")

\* C15: a first record with employee_name "Alex Anderson", document_type
\* "finance" and role absent or "unknown" gives exactly Method 1's
\* one_group_filter: two equals leaves and none for role.
C15_TutorialScenario ==
    (Built /\ HasRecords
        /\ FirstEntity.employee_name = JStr("Alex Anderson")
        /\ FirstEntity.document_type = JStr("finance")
        /\ FirstEntity.role \in {None, JStr("unknown")})
    => /\ metadata_filter = one_group_filter
       /\ Len(LeavesOf(metadata_filter)) = 2
       /\ ~HasLeaf(metadata_filter, "role")

C15_Witness ==
    /\ Built
    /\ HasRecords
    /\ FirstEntity.employee_name = JStr("Alex Anderson")
    /\ FirstEntity.document_type = JStr("finance")
    /\ FirstEntity.role = None
    /\ metadata_filter = one_group_filter


\* extract_entities returned None, no record, or a first record without a
\* qualifying field
NoAttributes ==
    /\ pc \in {"extracted", "built", "invoked"}
    /\ \/ ~HasRecords
       \/ QualifyingFields = {}

\* C16: absence of extractable attributes is no error in process_query: nothing
\* is raised, the agent is invoked exactly once with the unmodified query text
\* and no filter, and the agent's response is returned.
C16_NoAttributesIsNoError ==
    /\ [](NoAttributes =>
            /\ ~IsRaise(extracted_entities)
            /\ pc = "extracted" => ENABLED ConstructMetadataFilter
            /\ pc = "built" => (metadata_filter = None /\ ENABLED Invoke)
            /\ pc = "invoked" =>
                   /\ calls = <<ConverseCall(text.value), AgentCall(text.value, None)>>
                   /\ session_state.filter = None
                   /\ response # None)
    /\ [][(NoAttributes /\ pc = "invoked") => (pc' = "idle" /\ returned' = response)]_vars

C16_Witness ==
    /\ pc = "invoked"
    /\ HasRecords
    /\ QualifyingFields = {}
    /\ text.value # Query
    /\ calls[2] = AgentCall(text.value, None)

\* C18: construct_metadata_filter changes nothing but the value it returns: the
\* ExtractedEntities object and its records, the extractor's answer, the calls
\* made and every other variable stay as they were.
C18_ConstructChangesNothingElse ==
    [][pc = "extracted" =>
          /\ extracted_entities' = extracted_entities
          /\ json_entities' = json_entities
          /\ calls' = calls
          /\ session_state' = session_state
          /\ text' = text
          /\ response' = response
          /\ returned' = returned
          /\ pydantic' = pydantic]_vars

C18_Witness ==
    /\ pc = "built"
    /\ HasRecords
    /\ Len(extracted_entities.entities) = 2
    /\ Len(LeavesOf(metadata_filter)) = 1
    /\ calls = <<ConverseCall(text.value)>>

\* C19: a process_query call makes one extractor call, builds the filter after
\* the extractor has answered, then makes one agent invocation carrying that
\* filter; no call is repeated or reordered, and after a failure of the extractor
\* call the agent is not invoked.
C19_StrictlySequential ==
    /\ [](/\ pc = "idle" => calls = <<>>
          /\ pc \in {"found", "extracted", "built", "raised"}
                 => calls = <<ConverseCall(text.value)>>
          /\ pc = "invoked"
                 => calls = <<ConverseCall(text.value),
                              AgentCall(text.value, metadata_filter)>>
          /\ pc \in {"extracted", "built", "invoked"}
                 => /\ extracted_entities = extract_entities(pydantic, json_entities)
                    /\ ~IsRaise(extracted_entities)
          /\ pc \in {"built", "invoked"}
                 => metadata_filter = construct_metadata_filter(extracted_entities)
          /\ pc = "raised" => IsRaise(extracted_entities))
    /\ [][pc = "raised" => pc' = "idle"]_vars

C19_Witness ==
    /\ pc = "invoked"
    /\ Len(calls) = 2
    /\ calls[1].service = "converse"
    /\ calls[2].service = "agents.invoke"
    /\ Len(LeavesOf(calls[2].filter)) = 2

\* the entity with every empty string replaced by None
Blanked(entity) == [f \in Fields |-> IF entity[f] = JStr("") THEN None ELSE entity[f]]

\* C20: a field of the first record whose value is "" gets no leaf and counts as
\* absent: the result is the one for the record with that field None, a record
\* whose fields are all "" gives None, and no leaf has an empty value.
C20_EmptyStringIsAbsent ==
    (Built /\ HasRecords) =>
        /\ \A f \in Fields : FirstEntity[f] = JStr("") => ~HasLeaf(metadata_filter, f)
        /\ \A i \in DOMAIN LeavesOf(metadata_filter) :
               LeavesOf(metadata_filter)[i].equals.value # ""
        /\ metadata_filter = construct_metadata_filter([entities |-> <<Blanked(FirstEntity)>>])
        /\ (\A f \in Fields : FirstEntity[f] = JStr("")) => metadata_filter = None

C20_Witness ==
    /\ Built
    /\ HasRecords
    /\ \A f \in Fields : FirstEntity[f] = JStr("")
    /\ metadata_filter = None


\* what a call on the list l gives when it runs alone
Alone(l) ==
    LET ee == extract_entities(pydantic, [entities |-> l])
    IN  IF IsRaise(ee) THEN ee ELSE construct_metadata_filter(ee)

\* C17: no state is shared across invocations: under every interleaving of the
\* callers, and over every sequence of their calls, the records a call keeps and
\* the filter it builds are those of the same call running alone.
C17_NoSharedState ==
    \A c \in Callers :
        /\ invocations[c].pc = "loop"
               => /\ invocations[c].seen
                        = {invocations[c].unique_entities[i] :
                               i \in DOMAIN invocations[c].unique_entities}
                  /\ remove_duplicates_loop(invocations[c].rest, invocations[c].seen,
                                            invocations[c].unique_entities)
                        = remove_duplicates(invocations[c].entities)
        /\ invocations[c].pc = "validated"
               => /\ invocations[c].unique_entities
                        = remove_duplicates(invocations[c].entities)
                  /\ invocations[c].result
                        = extract_entities(pydantic, [entities |-> invocations[c].entities])
        /\ invocations[c].pc = "done"
               => invocations[c].result = Alone(invocations[c].entities)

\* both callers hold the same record; the one is done while the other is still
\* in its loop, and has kept its record
C17_Witness ==
    /\ invocations["caller 1"].pc = "done"
    /\ invocations["caller 2"].pc = "loop"
    /\ invocations["caller 1"].entities # <<>>
    /\ invocations["caller 2"].seen # {}
    /\ sorted(invocations["caller 1"].entities[1]) \in invocations["caller 2"].seen
    /\ Len(LeavesOf(invocations["caller 1"].result)) = 3

\* the positions of the toolUse blocks named extract_entities in the content
Matching ==
    {i \in DOMAIN content.value :
        /\ "toolUse" \in DOMAIN content.value[i]
        /\ content.value[i].toolUse.name = "extract_entities"}

FirstMatching == CHOOSE i \in Matching : \A j \in Matching : i <= j

\* extract_entities has scanned a converse response and returned or raised
Scanned == pc \in {"extracted", "raised"} /\ content # None

\* C21: extract_entities uses only the first content block that is a toolUse named
\* extract_entities: what it returns (or raises) is the validated parse of that
\* block's input whatever the later blocks are, and it returns None exactly when
\* there is no such block or the input of the first such block is empty.
C21_FirstToolUseBlockOnly ==
    Scanned =>
        /\ Matching = {} => extracted_entities = None
        /\ Matching # {} =>
               LET input == content.value[FirstMatching].toolUse.input
               IN  /\ json_entities = input
                   /\ input = EmptyInput => extracted_entities = None
                   /\ input # EmptyInput =>
                          /\ extracted_entities = ExtractedEntities_parse_obj(pydantic, input)
                          /\ extracted_entities # None
        /\ IsRaise(extracted_entities) <=> pc = "raised"

\* a text block, then two extract_entities blocks with different inputs, the first
\* of which is parsed
C21_Witness ==
    /\ pc = "extracted"
    /\ content # None
    /\ Len(content.value) = 3
    /\ Matching = {2, 3}
    /\ content.value[2].toolUse.input # content.value[3].toolUse.input
    /\ content.value[3].toolUse.input = EmptyInput
    /\ extracted_entities # None
    /\ extracted_entities.entities # <<>>

====
